---- MODULE Spec2Model ----
(***************************************************************************)
(* A model of the1noteai: the note pipeline (FileUpload -> storage ->       *)
(* notes table -> process-notes edge function -> Dashboard), the PDF text  *)
(* scan of process-notes, the math-solver message list and the             *)
(* chat_messages row policies.                                             *)
(*                                                                         *)
(* Two revisions of process-notes and of FileUpload are in the source      *)
(* tree.  rev = 1 is supabase/functions/process-notes/index.ts, rev = 2 is *)
(* unnamed/part_003; ui = 1 is src/components/FileUpload.tsx, ui = 2 is    *)
(* unnamed/part_002.  A behaviour runs one revision of each throughout.    *)
(***************************************************************************)
EXTENDS Integers, Sequences, FiniteSets, TLC

----------------------------------------------------------------------------
(* Bounds of the model *)

\* note rows ever inserted
MaxNotes == 2
\* process-notes requests ever received
MaxReq == 2
\* handleUpload calls ever started
MaxUploads == 2
\* fetchNotes calls in flight
MaxFetch == 1
\* the same three bounds where any HTTP client may call process-notes
HMaxNotes == 1
HMaxReq == 2
HMaxUploads == 1
\* length of the byte sequences given to the PDF scan
MaxPdfLen == 5
\* length of the conversationHistory sent to math-solver
MaxHist == 2
\* rows of chat_messages
MaxMsgs == 3
\* calls of handleSendMessage on the Solver page
MaxSends == 2
\* uploads, requests and notes of the behaviours checked for progress
LMaxUploads == 1
LMaxReq == 2
LMaxNotes == 1

----------------------------------------------------------------------------
(* Program constants *)

\* FileUpload: const MAX_SIZE = 50 * 1024 * 1024
MAX_SIZE == 52428800
\* process-notes: processedContent.length < 20 selects the fallback document
MinContentLen == 20
\* process-notes: extractedText.length > 30 is needed for the AI call
AiMinLen == 30
\* length of the fallback template of index.ts without its ${...} parts
FallbackBase1 == 773
\* length of the fallback template of part_003 without its ${...} parts
FallbackBase2 == 742

Users == {"u1", "u2"}
\* the user signed in to the browser session (useAuth().user)
SessionUser == "u1"

Statuses == {"uploading", "processing", "ready", "error"}

NULL == "NULL"

----------------------------------------------------------------------------
(* Values *)

\* a storage path `${dir}/${stem}.${ext}`; NoPath is the absent/empty string
NoPath == [dir |-> "", stem |-> "", ext |-> ""]

\* a text value, known by where it came from and by its length
NoText == [kind |-> "null", len |-> 0]
ExtractedText(n) == [kind |-> "extracted", len |-> n]
AiText(n) == [kind |-> "ai", len |-> n]

\* the files a user may pick: name, MIME type, size in bytes, and the length
\* of the text process-notes extracts from the file's bytes
FileTable ==
  << [stem |-> "lec",    ext |-> "pdf",  type |-> "application/pdf", size |-> 1, text |-> 31],
     [stem |-> "scan",   ext |-> "pdf",  type |-> "application/pdf", size |-> MAX_SIZE, text |-> 0],
     [stem |-> "notes",  ext |-> "docx",
      type |-> "application/vnd.openxmlformats-officedocument.wordprocessingml.document",
      size |-> 1, text |-> 19],
     [stem |-> "slides", ext |-> "pptx",
      type |-> "application/vnd.openxmlformats-officedocument.presentationml.presentation",
      size |-> 1, text |-> 20],
     [stem |-> "old",    ext |-> "doc",  type |-> "application/msword", size |-> 1, text |-> 30],
     [stem |-> "memo",   ext |-> "txt",  type |-> "text/plain", size |-> 1, text |-> 31],
     [stem |-> "pic",    ext |-> "png",  type |-> "image/png", size |-> 1, text |-> 20],
     [stem |-> "huge",   ext |-> "pdf",  type |-> "application/pdf", size |-> MAX_SIZE + 1, text |-> 31] >>

Files == 1..Len(FileTable)
NoFile == 0

\* lengths the AI gateway's message content may have (0: missing or empty)
AiLens == {0, 19, 20}

----------------------------------------------------------------------------
VARIABLES
  rev,           \* deployed process-notes revision
  ui,            \* deployed FileUpload revision
  apiKey,        \* LOVABLE_API_KEY is set
  storage,       \* bucket "notes": set of [path, text]
  notes,         \* table notes: id -> row
  nextId,        \* next id the table hands out
  reqs,          \* process-notes requests: k -> request
  nreq,          \* requests received so far
  genCount,      \* generated file names so far
  selectedFile,  \* FileUpload state: the chosen file (an index of FileTable) or NoFile
  isUploading,   \* FileUpload.tsx state
  uploadStatus,  \* part_002 state
  up,            \* the running handleUpload call: its position and locals
  timers,        \* part_002: pending setTimeout(..., 1500) callbacks
  lim,           \* the bounds this behaviour runs under: [uploads, reqs, notes, files]
  dnotes,        \* Dashboard state `notes`: id -> [status, file_name], status "" when not listed
  intervals,     \* Dashboard: setInterval(fetchNotes, 3000) timers not yet cleared
  fetches,       \* Dashboard: fetchNotes calls that have not returned
  retry,         \* the running handleRetryProcessing call
  del,           \* the running handleDeleteNote call
  pdf,           \* the PDF scan of process-notes: its input and loop variables
  solver,        \* the math-solver request being handled: its position and locals
  chat,          \* table chat_messages and the request last served on it
  page,          \* the Solver page: its message list and the running handleSendMessage
  conv           \* UnitConverter state: value, fromUnit, toUnit, category

cfgVars == <<rev, ui, apiKey, lim>>
fuVars == <<selectedFile, isUploading, uploadStatus, up, timers>>
dashVars == <<dnotes, intervals, fetches, retry, del>>
otherVars == <<pdf, solver, chat, page, conv>>

vars == <<cfgVars, storage, notes, nextId, reqs, nreq, genCount, fuVars,
          dashVars, otherVars>>

NoteIds == 1..MaxNotes
ReqIds == 1..MaxReq

NoUrl == [public |-> FALSE, path |-> NoPath]

NoRow ==
  [present |-> FALSE, user_id |-> "", file_name |-> NoPath, file_url |-> NoUrl,
   status |-> "", processed_content |-> NoText, original_content |-> NoText,
   error_message |-> NULL]

NoErr == [isError |-> FALSE, message |-> NULL]
NoResp == [status |-> 0, success |-> FALSE, error |-> NULL]

IdleReq ==
  [pc |-> "idle",
   body |-> [filePath |-> NoPath, userId |-> "", noteId |-> 0],
   extractedText |-> NoText, processedContent |-> NoText,
   ai |-> "unset", err |-> NoErr, resp |-> NoResp]

\* a handler that has returned: its locals are gone, its response is left
Responded(resp) == [IdleReq EXCEPT !.pc = "done", !.resp = resp]

IdleUp == [pc |-> "idle", file |-> NoFile, filePath |-> NoPath, req |-> 0]

NoLocal == [status |-> "", file_name |-> NoPath]
IdleRetry == [pc |-> "idle", noteId |-> 0, filePath |-> NoPath, req |-> 0]
IdleDel == [pc |-> "idle", noteId |-> 0, list |-> [i \in NoteIds |-> NoLocal]]
IdlePdf == [bytes |-> <<>>, i |-> 0, parenDepth |-> 0, currentText |-> <<>>,
            textContent |-> <<>>]

MsgIds == 1..MaxMsgs
NoSolverBody ==
  [message |-> "", noteContent |-> "", hasHistory |-> FALSE,
   conversationHistory |-> <<>>]
NoSolverResp == [status |-> 0, response |-> NULL, error |-> NULL]
IdleSolver ==
  [pc |-> "idle", body |-> NoSolverBody, messages |-> <<>>, resp |-> NoSolverResp]
NoMsg == [present |-> FALSE, user_id |-> "", role |-> "", content |-> ""]
NoChatReq == [op |-> "none", uid |-> "", id |-> 0]
IdleChat == [rows |-> [i \in MsgIds |-> NoMsg], last |-> NoChatReq]
IdlePage ==
  [messages |-> <<>>, pc |-> "idle", userMessage |-> "", temp |-> 0,
   closure |-> <<>>, delivered |-> FALSE, aiResponse |-> "", toast |-> "",
   sends |-> 0]

----------------------------------------------------------------------------
(* The notes table as the handlers use it *)

\* the row with the fields of patch p written over it
Patch(row, p) == [f \in DOMAIN row |-> IF f \in DOMAIN p THEN p[f] ELSE row[f]]

\* .update(p) on the rows whose id is in ids
UpdateRows(tbl, ids, p) ==
  [i \in NoteIds |-> IF i \in ids /\ tbl[i].present THEN Patch(tbl[i], p) ELSE tbl[i]]

\* .eq("id", noteId)
RowsById(tbl, noteId) == {i \in NoteIds : tbl[i].present /\ i = noteId}

\* .eq("user_id", userId).eq("status", "processing")
RowsProcessingOf(tbl, userId) ==
  {i \in NoteIds : tbl[i].present /\ tbl[i].user_id = userId /\ tbl[i].status = "processing"}

\* ... .order("created_at", { ascending: false }).limit(1): ids are handed out
\* in creation order
NewestOf(ids) == {i \in ids : \A j \in ids : j <= i}

----------------------------------------------------------------------------
(* process-notes: the pure parts of the handler *)

\* filePath.split("/").pop() || "", as the length of that name
FileNameLen(path) ==
  IF path.ext = "" THEN Len(path.stem) ELSE Len(path.stem) + 1 + Len(path.ext)

\* the fallback document built from the file name
FallbackLen(r, path) ==
  IF r = 1
    THEN FallbackBase1 + FileNameLen(path)
    ELSE FallbackBase2 + Len(path.stem) + FileNameLen(path)
           + (IF path.ext = "" THEN 7 ELSE Len(path.ext))

FallbackDoc(r, path) == [kind |-> "fallback", len |-> FallbackLen(r, path)]

\* a faulty variant: the fallback replaces only a missing or empty content
WithFallback_EmptyOnly(r, content, path) ==
  IF content.kind = "null" \/ content.len = 0
    THEN FallbackDoc(r, path)
    ELSE content

\* if (!processedContent || processedContent.length < 20) processedContent = fallback
WithFallback(r, content, path) ==
  IF content.kind = "null" \/ content.len = 0 \/ content.len < MinContentLen
    THEN FallbackDoc(r, path)
    ELSE content

\* if (LOVABLE_API_KEY && extractedText.length > 30)
CallsAI(key, extracted) == key /\ extracted.len > AiMinLen

\* a faulty variant: a failed gateway call leaves no content
AfterAI_DropsText(outcome, n, extracted) ==
  IF outcome = "ok" /\ n > 0 THEN AiText(n)
  ELSE IF outcome = "ok" THEN extracted ELSE NoText

\* processedContent after the gateway call: data.choices?.[0]?.message?.content
\* || extractedText on an OK answer, extractedText on a non-OK answer or a throw
AfterAI(outcome, n, extracted) ==
  IF outcome = "ok" /\ n > 0 THEN AiText(n) ELSE extracted

\* if (!filePath || !userId) throw new Error("Missing filePath or userId")
MissingFields(body) == body.filePath = NoPath \/ body.userId = ""

\* the rows the success update addresses
ReadyTargets(r, tbl, body) ==
  IF r = 1
    THEN IF body.noteId # 0
           THEN RowsById(tbl, body.noteId)
           ELSE NewestOf(RowsProcessingOf(tbl, body.userId))
    ELSE RowsById(tbl, body.noteId)

\* the rows the catch block's update addresses (none when it issues no update)
ErrorTargets(r, tbl, body) ==
  IF body.noteId # 0
    THEN RowsById(tbl, body.noteId)
    ELSE IF r = 1 /\ body.userId # ""
           THEN RowsProcessingOf(tbl, body.userId)
           ELSE {}

\* error instanceof Error ? error.message : "Processing failed"
ErrorMessageOf(err) == IF err.isError THEN err.message ELSE "Processing failed"

\* error instanceof Error ? error.message : "Unknown error"
ResponseErrorOf(err) == IF err.isError THEN err.message ELSE "Unknown error"

StatusProcessing == "processing"
\* a faulty variant: the success update repeats the status of the mark
StatusReady_Processing == "processing"
StatusReady == "ready"
StatusError == "error"

\* a faulty variant: the row is inserted with the component's own upload status
InsertStatus_Success == "success"

\* the status handleUpload inserts a row with
InsertStatus == "processing"

----------------------------------------------------------------------------
(* process-notes: the handler, one action per await *)

\* where the handler stands after parsing the body
PcAfterParse(r, body) ==
  IF MissingFields(body) THEN "catch"
  ELSE IF r = 2 /\ body.noteId # 0 THEN "mark"
  ELSE "download"

\* a request arrives: requestData = await req.json() and the field check
NewRequest(body) ==
  [IdleReq EXCEPT
     !.pc = PcAfterParse(rev, body),
     !.body = body,
     !.err = IF MissingFields(body)
               THEN [isError |-> TRUE, message |-> "Missing filePath or userId"]
               ELSE NoErr]

\* part_003: update({status: "processing", error_message: null}).eq("id", noteId);
\* the result is not looked at
PN_MarkProcessing(k) ==
  /\ reqs[k].pc = "mark"
  /\ \E ok \in BOOLEAN :
       notes' = IF ok
                  THEN UpdateRows(notes, RowsById(notes, reqs[k].body.noteId),
                                  [status |-> StatusProcessing, error_message |-> NULL])
                  ELSE notes
  /\ reqs' = [reqs EXCEPT ![k].pc = "download"]
  /\ UNCHANGED <<cfgVars, storage, nextId, nreq, genCount, fuVars, dashVars, otherVars>>

\* storage.from("notes").download(filePath), then the text extraction
PN_Download(k) ==
  /\ reqs[k].pc = "download"
  /\ \E ok \in BOOLEAN :
       LET objs == {o \in storage : o.path = reqs[k].body.filePath} IN
       IF ok /\ objs # {}
         THEN \E o \in objs :
                LET extracted == ExtractedText(o.text) IN
                reqs' = [reqs EXCEPT
                  ![k].extractedText = extracted,
                  ![k].processedContent =
                     IF CallsAI(apiKey, extracted) THEN extracted
                     ELSE WithFallback(rev, extracted, reqs[k].body.filePath),
                  ![k].ai = IF CallsAI(apiKey, extracted) THEN "unset" ELSE "skipped",
                  ![k].pc = IF CallsAI(apiKey, extracted) THEN "ai" ELSE "update"]
         ELSE reqs' = [reqs EXCEPT
                  ![k].err = [isError |-> TRUE, message |-> "Failed to download file"],
                  ![k].pc = "catch"]
  /\ UNCHANGED <<cfgVars, storage, notes, nextId, nreq, genCount, fuVars, dashVars, otherVars>>

\* the fetch to the AI gateway inside its own try/catch, then the fallback check
PN_AI(k) ==
  /\ reqs[k].pc = "ai"
  /\ \E outcome \in {"ok", "notok", "threw"} :
     \E n \in (IF outcome = "ok" THEN AiLens ELSE {0}) :
       reqs' = [reqs EXCEPT
         ![k].ai = outcome,
         ![k].processedContent =
            WithFallback(rev, AfterAI(outcome, n, reqs[k].extractedText),
                         reqs[k].body.filePath),
         ![k].pc = "update"]
  /\ UNCHANGED <<cfgVars, storage, notes, nextId, nreq, genCount, fuVars, dashVars, otherVars>>

\* a faulty variant: the update's error is not looked at
UpdateThrows_Never(ok) == FALSE

\* if (updateError) throw updateError
UpdateThrows(ok) == ~ok

\* the update to status ready returns: an error is thrown to the catch block,
\* otherwise the handler answers 200
PN_Update(k) ==
  /\ reqs[k].pc = "update"
  /\ \E ok \in BOOLEAN :
       /\ notes' = IF ok
                     THEN UpdateRows(notes, ReadyTargets(rev, notes, reqs[k].body),
                            IF rev = 1
                              THEN [status |-> StatusReady,
                                    processed_content |-> reqs[k].processedContent]
                              ELSE [status |-> StatusReady,
                                    processed_content |-> reqs[k].processedContent,
                                    original_content |-> reqs[k].extractedText])
                     ELSE notes
       /\ IF UpdateThrows(ok)
            THEN \E isErr \in BOOLEAN :
                   reqs' = [reqs EXCEPT
                     ![k].err = [isError |-> isErr, message |-> "update failed"],
                     ![k].pc = "catch"]
            ELSE reqs' = [reqs EXCEPT ![k] =
                   Responded([status |-> 200, success |-> TRUE, error |-> NULL])]
  /\ UNCHANGED <<cfgVars, storage, nextId, nreq, genCount, fuVars, dashVars, otherVars>>

\* the catch block: mark the note as error (result not looked at), answer 500
PN_Catch(k) ==
  /\ reqs[k].pc = "catch"
  /\ \E ok \in BOOLEAN :
       /\ notes' = IF ok
                     THEN UpdateRows(notes, ErrorTargets(rev, notes, reqs[k].body),
                            [status |-> StatusError,
                             error_message |-> ErrorMessageOf(reqs[k].err)])
                     ELSE notes
       /\ reqs' = [reqs EXCEPT ![k] =
            Responded([status |-> 500, success |-> FALSE,
                       error |-> ResponseErrorOf(reqs[k].err)])]
  /\ UNCHANGED <<cfgVars, storage, nextId, nreq, genCount, fuVars, dashVars, otherVars>>

\* the file paths a caller of the function may name
KnownPaths == {o.path : o \in storage} \cup {NoPath, [dir |-> "u2", stem |-> "nofile", ext |-> "pdf"]}

\* any HTTP client calls the function with a body of its choosing
DirectInvoke ==
  /\ nreq < lim.reqs
  /\ \E p \in KnownPaths, u \in Users \cup {""}, n \in 0..lim.notes :
       reqs' = [reqs EXCEPT ![nreq + 1] =
                  NewRequest([filePath |-> p, userId |-> u, noteId |-> n])]
  /\ nreq' = nreq + 1
  /\ UNCHANGED <<cfgVars, storage, notes, nextId, genCount, fuVars, dashVars, otherVars>>

----------------------------------------------------------------------------
(* FileUpload *)

\* const ACCEPTED_TYPES = [...]
ACCEPTED_TYPES(u) ==
  {"application/pdf",
   "application/msword",
   "application/vnd.openxmlformats-officedocument.wordprocessingml.document",
   "application/vnd.ms-powerpoint",
   "application/vnd.openxmlformats-officedocument.presentationml.presentation"}
  \cup (IF u = 2 THEN {"text/plain"} ELSE {})

\* validateFile: TRUE when it returns null (no error message)
validateFile(u, f) ==
  /\ FileTable[f].type \in ACCEPTED_TYPES(u)
  /\ ~(FileTable[f].size > MAX_SIZE)

\* part_002: const isUploading = uploadStatus === "uploading" || "processing"
Busy == IF ui = 1 THEN isUploading ELSE uploadStatus \in {"uploading", "processing"}

\* a faulty variant: the handler does not return after the toast
Selected_NoCheck(u, cur, f) == f

\* the file a drop or a choice leaves selected
Selected(u, cur, f) == IF validateFile(u, f) THEN f ELSE cur

\* handleDrop: part_002's drop zone takes no pointer events while uploading
handleDrop ==
  /\ ui = 2 => ~Busy
  /\ genCount < lim.uploads
  /\ \E f \in lim.files :
       /\ selectedFile' = Selected(ui, selectedFile, f)
       /\ uploadStatus' = IF ui = 2 /\ validateFile(ui, f) THEN "idle" ELSE uploadStatus
  /\ UNCHANGED <<cfgVars, storage, notes, nextId, reqs, nreq, genCount, isUploading, up, timers, dashVars, otherVars>>

\* handleFileSelect: part_002's input is disabled while uploading
handleFileSelect ==
  /\ ui = 2 => ~Busy
  /\ genCount < lim.uploads
  /\ \E f \in lim.files :
       /\ selectedFile' = Selected(ui, selectedFile, f)
       /\ uploadStatus' = IF ui = 2 /\ validateFile(ui, f) THEN "idle" ELSE uploadStatus
  /\ UNCHANGED <<cfgVars, storage, notes, nextId, reqs, nreq, genCount, isUploading, up, timers, dashVars, otherVars>>

\* the X button: onClick={() => setSelectedFile(null)}
clearSelected ==
  /\ selectedFile # NoFile
  /\ ~Busy
  /\ ui = 2 => uploadStatus # "success"
  /\ selectedFile' = NoFile
  /\ UNCHANGED <<cfgVars, storage, notes, nextId, reqs, nreq, genCount, isUploading, uploadStatus, up, timers, dashVars, otherVars>>

\* handleUpload up to its first await: the path is generated, the storage upload sent
handleUpload ==
  /\ selectedFile # NoFile
  /\ ~Busy
  /\ ui = 2 => uploadStatus # "success"
  /\ up.pc = "idle"
  /\ genCount < lim.uploads
  /\ up' = [pc |-> "storing", file |-> selectedFile,
            filePath |-> [dir |-> SessionUser,
                          stem |-> "g" \o ToString(genCount + 1),
                          ext |-> FileTable[selectedFile].ext],
            req |-> 0]
  /\ genCount' = genCount + 1
  /\ isUploading' = IF ui = 1 THEN TRUE ELSE isUploading
  /\ uploadStatus' = IF ui = 2 THEN "uploading" ELSE uploadStatus
  /\ UNCHANGED <<cfgVars, storage, notes, nextId, reqs, nreq, selectedFile, timers, dashVars, otherVars>>

\* the catch block of handleUpload (and FileUpload.tsx's finally)
UploadFailed ==
  /\ up' = IdleUp
  /\ isUploading' = IF ui = 1 THEN FALSE ELSE isUploading
  /\ uploadStatus' = IF ui = 2 THEN "error" ELSE uploadStatus

\* storage.from("notes").upload(filePath, selectedFile) returns
UploadStored ==
  /\ up.pc = "storing"
  /\ \E ok \in BOOLEAN :
       IF ok
         THEN /\ storage' = storage \cup
                   {[path |-> up.filePath, text |-> FileTable[up.file].text]}
              /\ up' = [up EXCEPT !.pc = "inserting"]
              /\ UNCHANGED <<isUploading, uploadStatus>>
         ELSE /\ UploadFailed
              /\ UNCHANGED storage
  /\ UNCHANGED <<cfgVars, notes, nextId, reqs, nreq, genCount, selectedFile, timers, dashVars, otherVars>>

\* the row handleUpload inserts
InsertedRow(u, f, path) ==
  [present |-> TRUE, user_id |-> SessionUser,
   file_name |-> [dir |-> "", stem |-> FileTable[f].stem, ext |-> FileTable[f].ext],
   file_url |-> [public |-> (u = 1), path |-> path],
   status |-> InsertStatus, processed_content |-> NoText,
   original_content |-> NoText, error_message |-> NULL]

\* a faulty variant: the invocation of the first revision of the function,
\* which took no noteId
InvokeBody_NoId(path, id) == [filePath |-> path, userId |-> SessionUser, noteId |-> 0]

\* body: { filePath, userId: user.id, noteId: noteData.id }
InvokeBody(path, id) == [filePath |-> path, userId |-> SessionUser, noteId |-> id]

\* from("notes").insert(...).select().single() returns; then process-notes is
\* invoked: FileUpload.tsx does not wait for it, part_002 does
UploadInserted ==
  /\ up.pc = "inserting"
  /\ \E ok \in BOOLEAN :
       IF ok
         THEN /\ nextId <= lim.notes
              /\ nreq < lim.reqs
              /\ ui = 1 => fetches < MaxFetch
              /\ notes' = [notes EXCEPT ![nextId] = InsertedRow(ui, up.file, up.filePath)]
              /\ nextId' = nextId + 1
              /\ \E delivered \in BOOLEAN :
                   /\ reqs' = IF delivered
                                THEN [reqs EXCEPT ![nreq + 1] =
                                   NewRequest(InvokeBody(up.filePath, nextId))]
                                ELSE reqs
                   /\ nreq' = IF delivered THEN nreq + 1 ELSE nreq
                   /\ up' = IF ui = 1 THEN IdleUp
                            ELSE [up EXCEPT !.pc = "invoking",
                                            !.req = IF delivered THEN nreq + 1 ELSE 0]
              /\ selectedFile' = IF ui = 1 THEN NoFile ELSE selectedFile
              /\ isUploading' = IF ui = 1 THEN FALSE ELSE isUploading
              /\ uploadStatus' = IF ui = 2 THEN "processing" ELSE uploadStatus
              /\ fetches' = IF ui = 1 THEN fetches + 1 ELSE fetches
         ELSE /\ UploadFailed
              /\ UNCHANGED <<notes, nextId, reqs, nreq, selectedFile, fetches>>
  /\ UNCHANGED <<cfgVars, storage, genCount, timers, dnotes, intervals, retry, del,
                 otherVars>>

\* part_002: the awaited functions.invoke returns (its error is only logged)
UploadInvoked ==
  /\ up.pc = "invoking"
  /\ IF up.req = 0 THEN TRUE ELSE reqs[up.req].pc = "done"
  /\ up' = IdleUp
  /\ uploadStatus' = "success"
  /\ timers' = timers + 1
  /\ UNCHANGED <<cfgVars, storage, notes, nextId, reqs, nreq, genCount, selectedFile, isUploading, dashVars, otherVars>>

\* part_002: the setTimeout callback 1500 ms after the success
UploadDoneTimer ==
  /\ timers > 0
  /\ fetches < MaxFetch
  /\ timers' = timers - 1
  /\ selectedFile' = NoFile
  /\ uploadStatus' = "idle"
  /\ fetches' = fetches + 1
  /\ UNCHANGED <<cfgVars, storage, notes, nextId, reqs, nreq, genCount, isUploading, up,
                 dnotes, intervals, retry, del, otherVars>>

----------------------------------------------------------------------------
(* Dashboard *)

\* notes.some(n => n.status === "processing" || n.status === "uploading")
hasProcessing(list) ==
  \E i \in NoteIds : list[i].status \in {"processing", "uploading"}

\* a faulty variant: the effect returns no clean-up
PollEffect_NoCleanup(n, old, new) == n + (IF hasProcessing(new) THEN 1 ELSE 0)

\* the polling effect re-run for a new `notes`: the clean-up of the previous run
\* clears the timer that run created, then a timer is set if hasProcessing
PollEffect(n, old, new) ==
  n - (IF hasProcessing(old) THEN 1 ELSE 0) + (IF hasProcessing(new) THEN 1 ELSE 0)

\* from("notes").select("*"): the rows the signed-in user has
Selected_Rows(tbl) ==
  [i \in NoteIds |->
     IF tbl[i].present /\ tbl[i].user_id = SessionUser
       THEN [status |-> tbl[i].status, file_name |-> tbl[i].file_name]
       ELSE NoLocal]

\* fetchNotes returns: setNotes(data || []) unless the query failed
FetchReturn ==
  /\ fetches > 0
  /\ fetches' = fetches - 1
  /\ \E ok \in BOOLEAN :
       IF ok
         THEN /\ dnotes' = Selected_Rows(notes)
              /\ intervals' = PollEffect(intervals, dnotes, Selected_Rows(notes))
         ELSE UNCHANGED <<dnotes, intervals>>
  /\ UNCHANGED <<cfgVars, storage, notes, nextId, reqs, nreq, genCount, fuVars,
                 retry, del, otherVars>>

\* a tick of a polling timer calls fetchNotes
PollTick ==
  /\ intervals > 0
  /\ fetches < MaxFetch
  /\ fetches' = fetches + 1
  /\ UNCHANGED <<cfgVars, storage, notes, nextId, reqs, nreq, genCount, fuVars,
                 dnotes, intervals, retry, del, otherVars>>

\* filePath: note.file_name.includes("/") ? note.file_name : `${user.id}/${note.file_name}`
RetryPath(file_name) ==
  IF file_name.dir # "" THEN file_name
  ELSE [dir |-> SessionUser, stem |-> file_name.stem, ext |-> file_name.ext]

\* handleRetryProcessing up to its first await (the Retry button of an error note)
handleRetryProcessing ==
  /\ retry.pc = "idle"
  /\ \E id \in NoteIds :
       /\ dnotes[id].status = "error"
       /\ retry' = [pc |-> "marking", noteId |-> id,
                    filePath |-> RetryPath(dnotes[id].file_name), req |-> 0]
  /\ UNCHANGED <<cfgVars, storage, notes, nextId, reqs, nreq, genCount, fuVars,
                 dnotes, intervals, fetches, del, otherVars>>

\* the status the retry writes before invoking
RetryStatus == "processing"

\* update({status: "processing", error_message: null}).eq("id", noteId) returns
\* (its result is not looked at); process-notes is invoked and awaited
RetryMarked ==
  /\ retry.pc = "marking"
  /\ nreq < lim.reqs
  /\ \E ok \in BOOLEAN :
       notes' = IF ok
                  THEN UpdateRows(notes, RowsById(notes, retry.noteId),
                                  [status |-> RetryStatus, error_message |-> NULL])
                  ELSE notes
  /\ \E delivered \in BOOLEAN :
       /\ reqs' = IF delivered
                    THEN [reqs EXCEPT ![nreq + 1] =
                       NewRequest([filePath |-> retry.filePath,
                                   userId |-> SessionUser,
                                   noteId |-> retry.noteId])]
                    ELSE reqs
       /\ nreq' = IF delivered THEN nreq + 1 ELSE nreq
       /\ retry' = [retry EXCEPT !.pc = "invoking",
                                 !.req = IF delivered THEN nreq + 1 ELSE 0]
  /\ UNCHANGED <<cfgVars, storage, nextId, genCount, fuVars,
                 dnotes, intervals, fetches, del, otherVars>>

\* the awaited invoke returns; fetchNotes() is called
RetryInvoked ==
  /\ retry.pc = "invoking"
  /\ IF retry.req = 0 THEN TRUE ELSE reqs[retry.req].pc = "done"
  /\ fetches < MaxFetch
  /\ fetches' = fetches + 1
  /\ retry' = IdleRetry
  /\ UNCHANGED <<cfgVars, storage, notes, nextId, reqs, nreq, genCount, fuVars,
                 dnotes, intervals, del, otherVars>>

\* handleDeleteNote up to its await; the closure keeps the `notes` of this render
handleDeleteNote ==
  /\ del.pc = "idle"
  /\ \E id \in NoteIds :
       /\ dnotes[id].status # ""
       /\ del' = [pc |-> "deleting", noteId |-> id, list |-> dnotes]
  /\ UNCHANGED <<cfgVars, storage, notes, nextId, reqs, nreq, genCount, fuVars,
                 dnotes, intervals, fetches, retry, otherVars>>

\* notes.filter(n => n.id !== noteId) on the list the closure holds
WithoutNote(list, id) == [i \in NoteIds |-> IF i = id THEN NoLocal ELSE list[i]]

\* from("notes").delete().eq("id", noteId) returns
DeleteReturn ==
  /\ del.pc = "deleting"
  /\ del' = IdleDel
  /\ \E ok \in BOOLEAN :
       IF ok
         THEN /\ notes' = [notes EXCEPT ![del.noteId] = NoRow]
              /\ dnotes' = WithoutNote(del.list, del.noteId)
              /\ intervals' = PollEffect(intervals, dnotes, WithoutNote(del.list, del.noteId))
         ELSE UNCHANGED <<notes, dnotes, intervals>>
  /\ UNCHANGED <<cfgVars, storage, nextId, reqs, nreq, genCount, fuVars,
                 fetches, retry, otherVars>>

----------------------------------------------------------------------------
(* process-notes: the PDF text scan.  Both revisions hold the same loop.   *)
(* A collected character is kept with the index of the byte it was made    *)
(* from (at, counted from 1); the separator the scan adds has at = 0.      *)
----------------------------------------------------------------------------
\* the bytes the scan is run on: ( ) A, the ends of the printable range and
\* the bytes just outside it
PdfAlphabet == {40, 41, 65, 32, 126, 31, 127}

RECURSIVE SeqsUpTo(_, _)
SeqsUpTo(S, n) ==
  IF n = 0 THEN {<<>>}
  ELSE LET shorter == SeqsUpTo(S, n - 1)
       IN shorter \cup {Append(q, b) : q \in {r \in shorter : Len(r) = n - 1}, b \in S}

OpenParen == 40
CloseParen == 41
PrintableLow == 32
PrintableHigh == 126
Separator == [b |-> 32, at |-> 0]

\* for (let i = 0; i < bytes.length - 1; i++)
ScanContinues(i, n) == i < n - 1

\* one iteration of the loop; i is the index of the code, bytes[i] is
\* pdf.bytes[i + 1] here
ScanStep(p) ==
  LET b == p.bytes[p.i + 1]
      char == [b |-> b, at |-> p.i + 1]
  IN  IF b = OpenParen
        THEN [p EXCEPT !.i = @ + 1,
                       !.parenDepth = @ + 1,
                       !.currentText = IF p.parenDepth + 1 = 1 THEN <<>> ELSE @]
      ELSE IF b = CloseParen
        THEN [p EXCEPT !.i = @ + 1,
                       !.parenDepth = @ - 1,
                       !.textContent =
                          IF p.parenDepth - 1 = 0 /\ Len(p.currentText) > 0
                            THEN @ \o p.currentText \o <<Separator>>
                            ELSE @]
      ELSE IF p.parenDepth > 0
        THEN [p EXCEPT !.i = @ + 1,
                       !.currentText =
                          IF b >= PrintableLow /\ b <= PrintableHigh
                            THEN Append(@, char) ELSE @]
      ELSE [p EXCEPT !.i = @ + 1]

PdfStep ==
  /\ ScanContinues(pdf.i, Len(pdf.bytes))
  /\ pdf' = ScanStep(pdf)
  /\ UNCHANGED <<cfgVars, storage, notes, nextId, reqs, nreq, genCount, fuVars,
                 dashVars, solver, chat, page, conv>>

----------------------------------------------------------------------------
(* math-solver (unnamed/part_004) *)
----------------------------------------------------------------------------
HistoryEntries ==
  [role : {"user", "assistant"}, content : {"q", "a"}, id : {"m1"}]

SolverBodies ==
  [message : {"", "solve"}, noteContent : {"", "notes"}, hasHistory : BOOLEAN,
   conversationHistory : SeqsUpTo(HistoryEntries, MaxHist)]

NoNotesText ==
  "No notes content available. Please inform the user to upload notes first."

\* the template of lines 21-42 with ${noteContent || "..."} filled in
SystemPrompt(noteContent) ==
  "You are 1Note ... LECTURE NOTES CONTEXT: "
    \o (IF noteContent = "" THEN NoNotesText ELSE noteContent)
    \o " Be precise, clear, and educational. Act as a patient private tutor."

\* a wrong list: the new user message ahead of the history
BuildMessages_UserBeforeHistory(body) ==
  <<[role |-> "system", content |-> SystemPrompt(body.noteContent)],
    [role |-> "user", content |-> body.message]>>
    \o [i \in 1..Len(body.conversationHistory) |->
          [role |-> body.conversationHistory[i].role,
           content |-> body.conversationHistory[i].content]]

\* const messages = [system, ...conversationHistory.map(...), user]
BuildMessages(body) ==
  <<[role |-> "system", content |-> SystemPrompt(body.noteContent)]>>
    \o [i \in 1..Len(body.conversationHistory) |->
          [role |-> body.conversationHistory[i].role,
           content |-> body.conversationHistory[i].content]]
    \o <<[role |-> "user", content |-> body.message]>>

SolverError(status, text) ==
  [IdleSolver EXCEPT !.pc = "done",
                     !.resp = [status |-> status, response |-> NULL, error |-> text]]

\* a request arrives: the body is parsed, the key read, the list built and
\* the gateway called
SolverReceive(body) ==
  IF ~apiKey
    THEN SolverError(500, "LOVABLE_API_KEY is not configured")
  ELSE IF ~body.hasHistory
    THEN SolverError(500, "TypeError")
  ELSE [pc |-> "fetch", body |-> body, messages |-> BuildMessages(body),
        resp |-> NoSolverResp]

\* any HTTP client sends a request
SolverRequest ==
  /\ solver.pc \in {"idle", "done"}
  /\ \E body \in SolverBodies :
       /\ ~body.hasHistory => body.conversationHistory = <<>>
       /\ solver' = SolverReceive(body)
  /\ UNCHANGED <<cfgVars, storage, notes, nextId, reqs, nreq, genCount, fuVars,
                 dashVars, pdf, chat, page, conv>>

\* the gateway answers
SolverAnswered ==
  /\ solver.pc = "fetch"
  /\ \E status \in {200, 429, 402, 500}, content \in {"", "answer"} :
       solver' =
         IF status = 429
           THEN SolverError(429, "Rate limit exceeded. Please try again in a moment.")
         ELSE IF status = 402
           THEN SolverError(402, "Usage limit reached. Please add credits.")
         ELSE IF status # 200
           THEN SolverError(500, "AI Gateway error")
         ELSE [IdleSolver EXCEPT
                 !.pc = "done",
                 !.resp = [status |-> 200,
                           response |-> IF content = ""
                                          THEN "I couldn't generate a response. Please try again."
                                          ELSE content,
                           error |-> NULL]]
  /\ UNCHANGED <<cfgVars, storage, notes, nextId, reqs, nreq, genCount, fuVars,
                 dashVars, pdf, chat, page, conv>>

----------------------------------------------------------------------------
(* chat_messages: the rows Solver inserts (unnamed/part_000) and the UPDATE *)
(* and DELETE policies of migration 20251222215800.  The requester is the  *)
(* auth.uid() of the statement, "" for a request without a session.        *)
----------------------------------------------------------------------------
Requesters == Users \cup {""}

\* a wrong policy: any signed-in user
UpdatePolicy_AnySignedIn(uid, row) == uid # ""

\* FOR UPDATE USING (auth.uid() = user_id); a NULL auth.uid() matches no row
UpdatePolicy(uid, row) == uid # "" /\ uid = row.user_id

\* FOR DELETE USING (auth.uid() = user_id)
DeletePolicy(uid, row) == uid # "" /\ uid = row.user_id

\* handleSendMessage: insert({user_id: user.id, ...}) by the signed-in user
ChatInsert ==
  /\ \E uid \in Users, id \in MsgIds :
       /\ ~chat.rows[id].present
       /\ \A j \in MsgIds : j < id => chat.rows[j].present
       /\ chat' = [rows |-> [chat.rows EXCEPT
                               ![id] = [present |-> TRUE, user_id |-> uid,
                                        role |-> "user", content |-> "v0"]],
                   last |-> [op |-> "insert", uid |-> uid, id |-> id]]
  /\ UNCHANGED <<cfgVars, storage, notes, nextId, reqs, nreq, genCount, fuVars,
                 dashVars, pdf, solver, page, conv>>

\* UPDATE chat_messages SET ... WHERE id = ... sent by any client: the row is
\* a target when the policy holds of it, and the new row must pass the same
\* expression (a policy without WITH CHECK checks new rows with USING)
ChatUpdate ==
  /\ \E uid \in Requesters, id \in MsgIds,
        p \in [user_id : Users, content : {"v0", "v1"}] :
       LET old == chat.rows[id]
           new == Patch(old, p)
           done == old.present /\ UpdatePolicy(uid, old) /\ UpdatePolicy(uid, new)
       IN  chat' = [rows |-> IF done THEN [chat.rows EXCEPT ![id] = new]
                                     ELSE chat.rows,
                    last |-> [op |-> "update", uid |-> uid, id |-> id]]
  /\ UNCHANGED <<cfgVars, storage, notes, nextId, reqs, nreq, genCount, fuVars,
                 dashVars, pdf, solver, page, conv>>

\* DELETE FROM chat_messages WHERE id = ... sent by any client
ChatDelete ==
  /\ \E uid \in Requesters, id \in MsgIds :
       LET old == chat.rows[id]
           done == old.present /\ DeletePolicy(uid, old)
       IN  chat' = [rows |-> IF done THEN [chat.rows EXCEPT ![id] = NoMsg]
                                     ELSE chat.rows,
                    last |-> [op |-> "delete", uid |-> uid, id |-> id]]
  /\ UNCHANGED <<cfgVars, storage, notes, nextId, reqs, nreq, genCount, fuVars,
                 dashVars, pdf, solver, page, conv>>

----------------------------------------------------------------------------
(* Solver page (unnamed/part_000): handleSendMessage, one action per await. *)
(* A displayed message is [id, role, content]; a saved message has the id  *)
(* of its row, the optimistic one (temp-${Date.now()}) a negative id.      *)
----------------------------------------------------------------------------
FreeMsgIds == {i \in MsgIds : ~chat.rows[i].present}

\* the row insert({user_id: user.id, note_id, role, content}) adds
SavedRow(role, content) ==
  [present |-> TRUE, user_id |-> SessionUser, role |-> role, content |-> content]

\* prev.map(m => m.id === tempUserMsg.id ? savedUserMsg : m)
ReplaceTemp(list, temp, saved) ==
  [i \in 1..Len(list) |-> IF list[i].id = temp THEN saved ELSE list[i]]

\* prev.filter(m => m.id !== tempUserMsg.id)
RemoveTemp(list, temp) == SelectSeq(list, LAMBDA m : m.id # temp)

\* a faulty variant: the list as displayed when the function is invoked
HistoryArg_Displayed(p) == p.messages

\* `messages` inside handleSendMessage: the list of the render the handler
\* was made in, which the setMessages calls of the handler do not change
HistoryArg(p) == p.closure

\* body of the math-solver invocation
SolverBodyOf(p) ==
  [message |-> p.userMessage, noteContent |-> "notes", hasHistory |-> TRUE,
   conversationHistory |->
     [i \in 1..Len(HistoryArg(p)) |->
        [role |-> HistoryArg(p)[i].role, content |-> HistoryArg(p)[i].content]]]

\* the catch block and finally: toast, remove the message with the temp id
SendFailed(p) ==
  [IdlePage EXCEPT !.messages = RemoveTemp(p.messages, p.temp),
                   !.toast = "error", !.sends = p.sends]

\* handleSendMessage up to its first await: the optimistic message is shown
\* and the insert of the user message sent
handleSendMessage ==
  /\ page.pc = "idle"
  /\ page.sends < MaxSends
  /\ \E text \in {"q", "r"} :
       page' = [page EXCEPT
                  !.pc = "savingUser",
                  !.userMessage = text,
                  !.temp = 0 - (page.sends + 1),
                  !.closure = page.messages,
                  !.messages = Append(page.messages,
                                      [id |-> 0 - (page.sends + 1), role |-> "user",
                                       content |-> text]),
                  !.toast = "",
                  !.sends = page.sends + 1]
  /\ UNCHANGED <<cfgVars, storage, notes, nextId, reqs, nreq, genCount, fuVars,
                 dashVars, pdf, solver, chat, conv>>

\* the insert of the user message returns; on success the temp message is
\* replaced by the saved one and math-solver is invoked
UserMsgSaved ==
  /\ page.pc = "savingUser"
  /\ \E ok \in BOOLEAN :
       IF ok
         THEN /\ FreeMsgIds # {}
              /\ solver.pc \in {"idle", "done"}
              /\ LET id == CHOOSE i \in FreeMsgIds : \A j \in FreeMsgIds : i <= j
                     saved == [id |-> id, role |-> "user", content |-> page.userMessage]
                 IN /\ chat' = [rows |-> [chat.rows EXCEPT
                                            ![id] = SavedRow("user", page.userMessage)],
                                last |-> [op |-> "insert", uid |-> SessionUser, id |-> id]]
                    /\ \E delivered \in BOOLEAN :
                         /\ page' = [page EXCEPT
                                       !.messages = ReplaceTemp(page.messages, page.temp, saved),
                                       !.pc = "solving",
                                       !.delivered = delivered]
                         /\ solver' = IF delivered THEN SolverReceive(SolverBodyOf(page))
                                      ELSE solver
         ELSE /\ page' = SendFailed(page)
              /\ UNCHANGED <<chat, solver>>
  /\ UNCHANGED <<cfgVars, storage, notes, nextId, reqs, nreq, genCount, fuVars,
                 dashVars, pdf, conv>>

\* functions.invoke returns: an undelivered call or a non-2xx answer is aiError
SolverReturned ==
  /\ page.pc = "solving"
  /\ page.delivered => solver.pc = "done"
  /\ page' = IF page.delivered /\ solver.resp.status = 200
               THEN [page EXCEPT !.pc = "savingAi", !.aiResponse = solver.resp.response]
               ELSE SendFailed(page)
  /\ UNCHANGED <<cfgVars, storage, notes, nextId, reqs, nreq, genCount, fuVars,
                 dashVars, pdf, solver, chat, conv>>

\* the insert of the assistant message returns
AiMsgSaved ==
  /\ page.pc = "savingAi"
  /\ \E ok \in BOOLEAN :
       IF ok
         THEN /\ FreeMsgIds # {}
              /\ LET id == CHOOSE i \in FreeMsgIds : \A j \in FreeMsgIds : i <= j
                 IN /\ chat' = [rows |-> [chat.rows EXCEPT
                                            ![id] = SavedRow("assistant", page.aiResponse)],
                                last |-> [op |-> "insert", uid |-> SessionUser, id |-> id]]
                    /\ page' = [IdlePage EXCEPT
                                  !.messages = Append(page.messages,
                                                      [id |-> id, role |-> "assistant",
                                                       content |-> page.aiResponse]),
                                  !.sends = page.sends]
         ELSE /\ page' = SendFailed(page)
              /\ UNCHANGED chat
  /\ UNCHANGED <<cfgVars, storage, notes, nextId, reqs, nreq, genCount, fuVars,
                 dashVars, pdf, solver, conv>>

----------------------------------------------------------------------------
(* UnitConverter (src/components/FileUpload.tsx 388-511) *)
----------------------------------------------------------------------------
Categories == {"length", "mass", "temperature", "angle"}

\* categories[c].units
Units(c) ==
  CASE c = "length" -> <<"m", "cm", "mm", "km", "in", "ft", "yd", "mi">>
    [] c = "mass" -> <<"kg", "g", "mg", "lb", "oz">>
    [] c = "temperature" -> <<"C", "F", "K">>
    [] c = "angle" -> <<"rad", "deg", "grad">>

UnitSet(c) == {Units(c)[i] : i \in 1..Len(Units(c))}

\* the strings typed into the value input
Values == {"", "1", "2.5"}

\* useState("") / useState("m") / useState("cm") / useState("length")
InitConv == [value |-> "", fromUnit |-> "m", toUnit |-> "cm", category |-> "length"]

\* a faulty variant: the units are left as they were
OnCategory_KeepUnits(c, val) == [c EXCEPT !.category = val]

\* onValueChange of the category select
OnCategory(c, val) ==
  [c EXCEPT !.category = val, !.fromUnit = Units(val)[1], !.toUnit = Units(val)[2]]

ChooseCategory ==
  /\ \E val \in Categories : conv' = OnCategory(conv, val)
  /\ UNCHANGED <<cfgVars, storage, notes, nextId, reqs, nreq, genCount, fuVars,
                 dashVars, pdf, solver, chat, page>>

\* the unit selects offer currentUnits
ChooseFromUnit ==
  /\ \E u \in UnitSet(conv.category) : conv' = [conv EXCEPT !.fromUnit = u]
  /\ UNCHANGED <<cfgVars, storage, notes, nextId, reqs, nreq, genCount, fuVars,
                 dashVars, pdf, solver, chat, page>>

ChooseToUnit ==
  /\ \E u \in UnitSet(conv.category) : conv' = [conv EXCEPT !.toUnit = u]
  /\ UNCHANGED <<cfgVars, storage, notes, nextId, reqs, nreq, genCount, fuVars,
                 dashVars, pdf, solver, chat, page>>

\* onChange of the value input
TypeValue ==
  /\ \E v \in Values : conv' = [conv EXCEPT !.value = v]
  /\ UNCHANGED <<cfgVars, storage, notes, nextId, reqs, nreq, genCount, fuVars,
                 dashVars, pdf, solver, chat, page>>

----------------------------------------------------------------------------
InitPipeline ==
  /\ rev \in {1, 2}
  /\ ui \in {1, 2}
  /\ storage = {}
  /\ notes = [i \in NoteIds |-> NoRow]
  /\ nextId = 1
  /\ reqs = [k \in ReqIds |-> IdleReq]
  /\ nreq = 0
  /\ genCount = 0
  /\ selectedFile = NoFile
  /\ isUploading = FALSE
  /\ uploadStatus = "idle"
  /\ up = IdleUp
  /\ timers = 0
  /\ dnotes = [i \in NoteIds |-> NoLocal]
  /\ intervals = 0
  /\ retry = IdleRetry
  /\ del = IdleDel

\* the browser session with FileUpload, against the deployed function
Init ==
  /\ InitPipeline
  /\ fetches = 1
  /\ pdf = IdlePdf /\ solver = IdleSolver /\ chat = IdleChat /\ page = IdlePage
  /\ conv = InitConv
  /\ apiKey = TRUE
  /\ lim = [uploads |-> MaxUploads, reqs |-> MaxReq, notes |-> MaxNotes,
            files |-> {1, 3, 7}]

\* the function open to any HTTP client; the Dashboard has loaded its list
InitHandler ==
  /\ InitPipeline
  /\ fetches = 0
  /\ pdf = IdlePdf /\ solver = IdleSolver /\ chat = IdleChat /\ page = IdlePage
  /\ conv = InitConv
  /\ apiKey \in BOOLEAN
  /\ lim = [uploads |-> HMaxUploads, reqs |-> HMaxReq, notes |-> HMaxNotes,
            files |-> Files]

Next ==
  \/ \E k \in ReqIds : PN_MarkProcessing(k)
  \/ \E k \in ReqIds : PN_Download(k)
  \/ \E k \in ReqIds : PN_AI(k)
  \/ \E k \in ReqIds : PN_Update(k)
  \/ \E k \in ReqIds : PN_Catch(k)
  \/ handleDrop
  \/ handleFileSelect
  \/ clearSelected
  \/ handleUpload
  \/ UploadStored
  \/ UploadInserted
  \/ UploadInvoked
  \/ UploadDoneTimer
  \/ FetchReturn
  \/ PollTick
  \/ handleRetryProcessing
  \/ RetryMarked
  \/ RetryInvoked
  \/ handleDeleteNote
  \/ DeleteReturn

NextHandler ==
  \/ \E k \in ReqIds : PN_MarkProcessing(k)
  \/ \E k \in ReqIds : PN_Download(k)
  \/ \E k \in ReqIds : PN_AI(k)
  \/ \E k \in ReqIds : PN_Update(k)
  \/ \E k \in ReqIds : PN_Catch(k)
  \/ DirectInvoke
  \/ handleDrop
  \/ handleFileSelect
  \/ clearSelected
  \/ handleUpload
  \/ UploadStored
  \/ UploadInserted
  \/ UploadInvoked
  \/ UploadDoneTimer

Spec == Init /\ [][Next]_vars

SpecHandler == InitHandler /\ [][NextHandler]_vars

\* the scan of a downloaded PDF, from any byte sequence up to MaxPdfLen
InitPdf ==
  /\ InitPipeline
  /\ fetches = 0
  /\ apiKey = TRUE
  /\ lim = [uploads |-> MaxUploads, reqs |-> MaxReq, notes |-> MaxNotes,
            files |-> {1, 3, 7}]
  /\ pdf \in {[IdlePdf EXCEPT !.bytes = q] : q \in SeqsUpTo(PdfAlphabet, MaxPdfLen)}
  /\ solver = IdleSolver /\ chat = IdleChat /\ page = IdlePage
  /\ conv = InitConv

NextPdf == PdfStep

SpecPdf == InitPdf /\ [][NextPdf]_vars

\* math-solver open to any HTTP client
InitSolver ==
  /\ InitPipeline
  /\ fetches = 0
  /\ apiKey \in BOOLEAN
  /\ lim = [uploads |-> MaxUploads, reqs |-> MaxReq, notes |-> MaxNotes,
            files |-> {1, 3, 7}]
  /\ pdf = IdlePdf /\ solver = IdleSolver /\ chat = IdleChat /\ page = IdlePage
  /\ conv = InitConv

NextSolver ==
  \/ SolverRequest
  \/ SolverAnswered

SpecSolver == InitSolver /\ [][NextSolver]_vars

\* the chat_messages table under requests of any client
InitChat ==
  /\ InitPipeline
  /\ fetches = 0
  /\ apiKey = TRUE
  /\ lim = [uploads |-> MaxUploads, reqs |-> MaxReq, notes |-> MaxNotes,
            files |-> {1, 3, 7}]
  /\ pdf = IdlePdf /\ solver = IdleSolver /\ chat = IdleChat /\ page = IdlePage
  /\ conv = InitConv

NextChat ==
  \/ ChatInsert
  \/ ChatUpdate
  \/ ChatDelete

SpecChat == InitChat /\ [][NextChat]_vars

\* index.ts open to any HTTP client, beside a user of FileUpload.tsx with
\* several notes
InitFrame ==
  /\ InitPipeline
  /\ rev = 1 /\ ui = 1
  /\ fetches = 0
  /\ pdf = IdlePdf /\ solver = IdleSolver /\ chat = IdleChat /\ page = IdlePage
  /\ conv = InitConv
  /\ apiKey = TRUE
  /\ lim = [uploads |-> MaxUploads, reqs |-> MaxReq, notes |-> MaxNotes,
            files |-> {1}]

NextFrame ==
  \/ \E k \in ReqIds : PN_Download(k)
  \/ \E k \in ReqIds : PN_AI(k)
  \/ \E k \in ReqIds : PN_Update(k)
  \/ \E k \in ReqIds : PN_Catch(k)
  \/ DirectInvoke
  \/ handleFileSelect
  \/ handleUpload
  \/ UploadStored
  \/ UploadInserted
  \/ FetchReturn

SpecFrame == InitFrame /\ [][NextFrame]_vars

\* the Solver page of a signed-in user with a loaded note, and math-solver
InitPage ==
  /\ InitPipeline
  /\ fetches = 0
  /\ pdf = IdlePdf /\ solver = IdleSolver /\ chat = IdleChat /\ page = IdlePage
  /\ conv = InitConv
  /\ apiKey \in BOOLEAN
  /\ lim = [uploads |-> MaxUploads, reqs |-> MaxReq, notes |-> MaxNotes,
            files |-> {1, 3, 7}]

NextPage ==
  \/ handleSendMessage
  \/ UserMsgSaved
  \/ SolverAnswered
  \/ SolverReturned
  \/ AiMsgSaved

SpecPage == InitPage /\ [][NextPage]_vars

\* the tools panel with the unit converter open
InitTools ==
  /\ InitPipeline
  /\ fetches = 0
  /\ pdf = IdlePdf /\ solver = IdleSolver /\ chat = IdleChat /\ page = IdlePage
  /\ conv = InitConv
  /\ apiKey = TRUE
  /\ lim = [uploads |-> MaxUploads, reqs |-> MaxReq, notes |-> MaxNotes,
            files |-> {1, 3, 7}]

NextTools ==
  \/ ChooseCategory
  \/ ChooseFromUnit
  \/ ChooseToUnit
  \/ TypeValue

SpecTools == InitTools /\ [][NextTools]_vars

\* the browser session of Spec, where every process-notes handler that has
\* started runs on to its response
InitLive ==
  /\ InitPipeline
  /\ fetches = 1
  /\ pdf = IdlePdf /\ solver = IdleSolver /\ chat = IdleChat /\ page = IdlePage
  /\ conv = InitConv
  /\ apiKey = TRUE
  /\ lim = [uploads |-> LMaxUploads, reqs |-> LMaxReq, notes |-> LMaxNotes,
            files |-> {1, 3}]

HandlerRuns ==
  \A k \in ReqIds :
    /\ WF_vars(PN_MarkProcessing(k))
    /\ WF_vars(PN_Download(k))
    /\ WF_vars(PN_AI(k))
    /\ WF_vars(PN_Update(k))
    /\ WF_vars(PN_Catch(k))

SpecLive == InitLive /\ [][Next]_vars /\ HandlerRuns

----------------------------------------------------------------------------
(* Claims *)

Present == {i \in NoteIds : notes[i].present}

\* C1: every status any operation writes to a note row is one of uploading,
\* processing, ready, error, so every note row's status is in that set.
C1_StatusInSet ==
  \A i \in Present : notes[i].status \in {"uploading", "processing", "ready", "error"}

\* C1 witness: the upload, the success path and the error path have all written
C1_Witness ==
  \E i, j \in Present :
    /\ notes[i].status = "ready"
    /\ notes[j].status = "error"
    /\ retry.pc = "invoking"

\* a step in which handler k answers
Answers(k) == reqs[k].pc \in {"update", "catch"} /\ reqs'[k].pc = "done"

\* the note a request names, when that row exists
NamedRow(k) == reqs[k].body.noteId # 0 /\ notes[reqs[k].body.noteId].present

\* C2 as stated: 200 with success:true only with the ready update done; a request
\* that lacks a field, whose download failed or whose update failed is answered
\* 500 with an error message and the note it names has status error and a non-null
\* error_message.
C2_Original ==
  [][\A k \in ReqIds : Answers(k) =>
       /\ reqs'[k].resp.status = 200 =>
            /\ reqs'[k].resp.success
            /\ reqs[k].pc = "update"
            /\ NamedRow(k) => notes'[reqs[k].body.noteId].status = "ready"
       /\ reqs[k].pc = "catch" =>
            /\ reqs'[k].resp.status = 500
            /\ reqs'[k].resp.error # NULL
            /\ NamedRow(k) =>
                 /\ notes'[reqs[k].body.noteId].status = "error"
                 /\ notes'[reqs[k].body.noteId].error_message # NULL]_vars

\* C2 amended: as C2, but the update that marks the note as error is issued and
\* its result is not looked at: the note has status error and a non-null
\* error_message unless that update itself failed, and then it is unchanged.
C2_Amended ==
  [][\A k \in ReqIds : Answers(k) =>
       /\ reqs'[k].resp.status = 200 =>
            /\ reqs'[k].resp.success
            /\ reqs[k].pc = "update"
            /\ NamedRow(k) => notes'[reqs[k].body.noteId].status = "ready"
       /\ reqs[k].pc = "catch" =>
            /\ reqs'[k].resp.status = 500
            /\ reqs'[k].resp.error # NULL
            /\ NamedRow(k) =>
                 \/ /\ notes'[reqs[k].body.noteId].status = "error"
                    /\ notes'[reqs[k].body.noteId].error_message # NULL
                 \/ notes' = notes]_vars

\* C2 witness: a request was answered 500 and the note it named is marked as
\* error with the message of a failed download
C2_Witness ==
  \E k \in ReqIds, i \in Present :
    /\ reqs[k].pc = "done"
    /\ reqs[k].resp.status = 500
    /\ reqs[k].resp.error = "Failed to download file"
    /\ notes[i].status = "error"
    /\ notes[i].error_message = "Failed to download file"

C4_AiFailureHarmless ==
  [][\A k \in ReqIds :
       /\ (reqs[k].pc = "ai" /\ reqs'[k].ai \in {"notok", "threw"}) =>
            /\ reqs'[k].pc = "update"
            /\ reqs'[k].processedContent = reqs[k].extractedText
       /\ (reqs[k].ai \in {"notok", "threw"} /\ reqs[k].pc = "update"
             /\ reqs'[k].pc # "update") =>
            \/ /\ reqs'[k].pc = "done"
               /\ reqs'[k].resp.status = 200
               /\ NamedRow(k) =>
                    /\ notes'[reqs[k].body.noteId].status = "ready"
                    /\ notes'[reqs[k].body.noteId].processed_content.kind = "extracted"
                    /\ notes'[reqs[k].body.noteId].processed_content.len
                         = reqs[k].extractedText.len
            \/ /\ reqs'[k].pc = "catch"
               /\ reqs'[k].err.message = "update failed"
               /\ notes' = notes]_vars

\* C4 witness: the gateway call of a request failed and the request stands
\* before its ready update
C4_Witness ==
  \E k \in ReqIds :
    /\ reqs[k].pc = "update"
    /\ reqs[k].ai = "threw"
    /\ reqs[k].body.noteId # 0
    /\ notes[reqs[k].body.noteId].present

\* C5: a polling timer is active exactly when the Dashboard's note list holds a
\* note with status processing or uploading, and never more than one.
C5_PollingTimer ==
  /\ intervals \in {0, 1}
  /\ intervals = 1 <=>
       \E i \in NoteIds : dnotes[i].status = "processing" \/ dnotes[i].status = "uploading"

\* C5 witness: the list holds the processing note of the only upload, whose
\* handler is still running, the timer is set and a poll it issued is in flight
C5_Witness ==
  /\ intervals = 1
  /\ fetches = 1
  /\ \E i \in NoteIds : dnotes[i].status = "processing"
  /\ ui = 1 /\ genCount = 1 /\ nreq = 1 /\ reqs[1].pc = "download"
  /\ retry = IdleRetry /\ up = IdleUp /\ del = IdleDel

\* C8: selectedFile, and the file a running handleUpload holds, has a MIME type
\* in ACCEPTED_TYPES and at most 50*1024*1024 bytes.
C8_SelectedValid ==
  /\ selectedFile # NoFile =>
       /\ FileTable[selectedFile].type \in ACCEPTED_TYPES(ui)
       /\ FileTable[selectedFile].size <= 50 * 1024 * 1024
  /\ up.pc # "idle" =>
       /\ FileTable[up.file].type \in ACCEPTED_TYPES(ui)
       /\ FileTable[up.file].size <= 50 * 1024 * 1024

\* C8 witness: a file is selected while a rejected file could have been dropped,
\* and an upload of a file of exactly the size limit is running
C8_Witness ==
  /\ up.pc = "storing"
  /\ FileTable[up.file].size = 52428800
  /\ selectedFile # NoFile

----------------------------------------------------------------------------
ScanDone == ~ScanContinues(pdf.i, Len(pdf.bytes))

\* the nesting depth in front of byte p, as the scan counts it
DepthBefore(bytes, p) ==
  Cardinality({q \in 1..(p - 1) : bytes[q] = OpenParen})
    - Cardinality({q \in 1..(p - 1) : bytes[q] = CloseParen})

\* the parenthesised groups of a byte sequence: an opening parenthesis at
\* depth 0 and the parenthesis that closes it
Groups(bytes) ==
  {g \in (1..Len(bytes)) \X (1..Len(bytes)) :
     /\ g[1] < g[2]
     /\ bytes[g[1]] = OpenParen /\ DepthBefore(bytes, g[1]) = 0
     /\ bytes[g[2]] = CloseParen /\ DepthBefore(bytes, g[2]) = 1
     /\ \A q \in (g[1] + 1)..(g[2] - 1) :
          ~(bytes[q] = CloseParen /\ DepthBefore(bytes, q) = 1)}

\* the bytes of a group that are text: in 32..126 and not a parenthesis
ContentOf(bytes, g) ==
  {p \in (g[1] + 1)..(g[2] - 1) :
     /\ bytes[p] >= 32 /\ bytes[p] <= 126
     /\ bytes[p] \notin {OpenParen, CloseParen}}

TextGroups(bytes) == {g \in Groups(bytes) : ContentOf(bytes, g) # {}}

LastOf(S) == CHOOSE p \in S : \A q \in S : q <= p

\* C9: when the scan of a PDF byte sequence has ended, the collected text is
\* made of bytes in 32..126 that lie inside a parenthesised group and of
\* nothing from outside parentheses, and it is the groups' contents in input
\* order, each followed by one space.
C9_CollectedText ==
  ScanDone =>
    LET t == pdf.textContent
        bytes == pdf.bytes
        G == TextGroups(bytes)
        inside == UNION {ContentOf(bytes, g) : g \in G}
        ends == {LastOf(ContentOf(bytes, g)) : g \in G}
    IN  /\ \A j \in 1..Len(t) : t[j].at > 0 =>
              /\ t[j].at \in inside
              /\ t[j].b = bytes[t[j].at]
        /\ \A p \in inside : \E j \in 1..Len(t) : t[j].at = p
        /\ \A j, k \in 1..Len(t) :
              (j < k /\ t[j].at > 0 /\ t[k].at > 0) => t[j].at < t[k].at
        /\ \A j \in 1..Len(t) : t[j].at = 0 =>
              /\ t[j].b = 32
              /\ j > 1 /\ t[j - 1].at \in ends
        /\ \A j \in 1..Len(t) : t[j].at \in ends =>
              j < Len(t) /\ t[j + 1].at = 0
----------------------------------------------------------------------------
\* C7: the list math-solver forwards is one system message built from the
\* template and noteContent, then every element of conversationHistory in
\* its order with role and content unchanged, then the new user message; its
\* length is the history length plus 2.
C7_MessageList ==
  solver.pc = "fetch" =>
    LET m == solver.messages
        h == solver.body.conversationHistory
    IN  /\ Len(m) = Len(h) + 2
        /\ m[1] = [role |-> "system", content |-> SystemPrompt(solver.body.noteContent)]
        /\ \A i \in 1..Len(h) :
             /\ m[i + 1].role = h[i].role
             /\ m[i + 1].content = h[i].content
        /\ m[Len(m)] = [role |-> "user", content |-> solver.body.message]

C7_Witness ==
  /\ solver.pc = "fetch"
  /\ Len(solver.body.conversationHistory) = 2
  /\ solver.body.conversationHistory[1].role = "user"
  /\ solver.body.conversationHistory[2].role = "assistant"
  /\ solver.body.conversationHistory[1].content # solver.body.conversationHistory[2].content
  /\ solver.body.noteContent = ""
  /\ Len(solver.messages) = 4
----------------------------------------------------------------------------
\* C10: a row of chat_messages is updated or deleted only by a request whose
\* authenticated user id equals the row's user_id; a request of anyone else
\* leaves the row as it was.
C10_OwnerOnly ==
  [][\A id \in MsgIds :
       (chat.rows[id].present /\ chat'.rows[id] # chat.rows[id]) =>
          /\ chat'.last.op \in {"update", "delete"}
          /\ chat'.last.id = id
          /\ chat'.last.uid # ""
          /\ chat'.last.uid = chat.rows[id].user_id]_vars

\* an owner's update went through and another user's delete of that row was
\* then served
C10_Witness ==
  /\ chat.rows[1].present
  /\ chat.rows[1].user_id = "u1"
  /\ chat.rows[1].content = "v1"
  /\ chat.last = [op |-> "delete", uid |-> "u2", id |-> 1]
----------------------------------------------------------------------------
\* request k is running for a note that is in status processing
Processing(k) ==
  /\ reqs[k].pc \notin {"idle", "done"}
  /\ IF reqs[k].body.noteId = 0 THEN FALSE
     ELSE /\ notes[reqs[k].body.noteId].present
          /\ notes[reqs[k].body.noteId].status = "processing"

\* the note of request k has come to status ready or error
Settled(k) ==
  IF reqs[k].body.noteId = 0 THEN FALSE
  ELSE /\ notes[reqs[k].body.noteId].present
       /\ notes[reqs[k].body.noteId].status \in {"ready", "error"}

\* C11 as stated: a processing note whose process-notes request was delivered
\* comes to status ready or error, and a handler given a noteId never
\* answers while leaving that note in status processing.
C11_Original ==
  /\ \A k \in ReqIds : Processing(k) ~> Settled(k)
  /\ [][\A k \in ReqIds : (Answers(k) /\ NamedRow(k)) =>
          notes'[reqs[k].body.noteId].status # "processing"]_vars

\* C11 as amended: the handler of a delivered request comes to its response,
\* and when it answers, a note it was given by id is in status ready or
\* error, unless the answer comes from the catch block and the update issued
\* there failed, which leaves the note as it was.
C11_Amended ==
  /\ \A k \in ReqIds : Processing(k) ~> (reqs[k].pc = "done")
  /\ [][\A k \in ReqIds : (Answers(k) /\ NamedRow(k)) =>
          \/ notes'[reqs[k].body.noteId].status \in {"ready", "error"}
          \/ reqs[k].pc = "catch" /\ notes' = notes]_vars

\* the request of an upload has answered and the uploaded note is ready
C11_Witness ==
  /\ nreq = 1
  /\ reqs[1].pc = "done"
  /\ reqs[1].resp.status = 200
  /\ notes[1].present
  /\ notes[1].status = "ready"
----------------------------------------------------------------------------
\* C12: handleRetryProcessing invokes process-notes with the storage path
\* under which handleUpload stored the note's file (the path the inserted
\* row's file_url was made from), so that the file of a retried note is found.
C12_RetrySamePath ==
  (retry.pc \in {"marking", "invoking"} /\ notes[retry.noteId].present) =>
     /\ retry.filePath = notes[retry.noteId].file_url.path
     /\ \E o \in storage : o.path = retry.filePath
----------------------------------------------------------------------------
\* C13: once a note is in status ready (which only process-notes writes), no
\* later write changes its status or its processed_content; the row can only
\* be deleted.
C13_ReadyIsFinal ==
  [][\A n \in NoteIds :
       (notes[n].present /\ notes[n].status = "ready") =>
          \/ ~notes'[n].present
          \/ /\ notes'[n].status = notes[n].status
             /\ notes'[n].processed_content = notes[n].processed_content]_vars
----------------------------------------------------------------------------
\* C14: a step of a process-notes request without noteId changes at most one
\* row of notes, and only the requesting user's newest row in status
\* processing, whether the request succeeds or fails.
C14_OneRowOnly ==
  [][\A k \in ReqIds :
       (reqs[k].pc \in {"mark", "download", "ai", "update", "catch"}
          /\ reqs[k].body.noteId = 0 /\ reqs'[k] # reqs[k]) =>
         LET changed == {n \in NoteIds : notes'[n] # notes[n]}
             mine == {n \in NoteIds : /\ notes[n].present
                                      /\ notes[n].user_id = reqs[k].body.userId
                                      /\ notes[n].status = "processing"}
         IN  /\ Cardinality(changed) <= 1
             /\ \A n \in changed : n \in mine /\ \A j \in mine : j <= n]_vars
----------------------------------------------------------------------------
\* C15: handleUpload goes storage upload, row insert, invocation: a failed
\* storage upload inserts no row and invokes nothing, a failed insert invokes
\* nothing, and the function is invoked only in the step in which the call's
\* row was inserted, once, with that row's id and the path the call's file
\* was stored under.
C15_UploadOrder ==
  [][/\ (up.pc = "storing" /\ up'.pc = "idle") =>
          notes' = notes /\ reqs' = reqs /\ nreq' = nreq /\ storage' = storage
     /\ (up.pc = "inserting" /\ up' # up /\ notes' = notes) =>
          reqs' = reqs /\ nreq' = nreq /\ up'.pc = "idle"
     /\ (up' # up /\ up.pc # "inserting") => reqs' = reqs /\ nreq' = nreq
     /\ (up.pc = "inserting" /\ up' # up /\ nreq' # nreq) =>
          /\ nreq' = nreq + 1
          /\ \A k \in ReqIds : k # nreq' => reqs'[k] = reqs[k]
          /\ reqs'[nreq'].body.filePath = up.filePath
          /\ reqs'[nreq'].body.noteId = nextId
          /\ nextId' = nextId + 1
          /\ ~notes[nextId].present /\ notes'[nextId].present
          /\ notes'[nextId].file_url.path = up.filePath
          /\ \E o \in storage : o.path = up.filePath]_vars

\* two calls of handleUpload have run: one gave up, the other's request is
\* in the function and names its row and its path
C15_Witness ==
  /\ genCount = 2
  /\ up.pc = "idle"
  /\ nextId = 2
  /\ nreq = 1
  /\ reqs[1].pc \in {"mark", "download"}
  /\ reqs[1].body.noteId = 1
  /\ reqs[1].body.filePath = notes[1].file_url.path
----------------------------------------------------------------------------
\* a call of handleSendMessage ends in its catch block
SendFails == page.pc # "idle" /\ page'.pc = "idle" /\ page'.toast = "error"

\* C16: when handleSendMessage fails at any of its steps, the optimistic user
\* message is gone from the displayed list, which is then the list as it
\* was before the send.
C16_FailedSendRestores ==
  [][SendFails =>
       /\ page'.messages = page.closure
       /\ \A i \in 1..Len(page'.messages) :
            page'.messages[i].id # page.temp]_vars

\* math-solver is invoked by handleSendMessage and builds its list
Invokes == page.pc = "savingUser" /\ page'.pc = "solving" /\ solver'.pc = "fetch"

\* C17: in the list math-solver forwards for a send, the entries after the
\* system message are the displayed messages as they were before the send,
\* then the new user message, once: the displayed list at that moment ends
\* with the new message, and the history passed leaves it out.
C17_NewMessageOnce ==
  [][Invokes =>
       LET shown == page'.messages
           m == solver'.messages
           h == solver'.body.conversationHistory
       IN  /\ Len(shown) >= 1
           /\ shown[Len(shown)].id > 0
           /\ shown[Len(shown)].content = page.userMessage
           /\ Len(h) = Len(shown) - 1
           /\ \A i \in 1..Len(h) :
                /\ h[i].role = shown[i].role
                /\ h[i].content = shown[i].content
           /\ Len(m) = Len(h) + 2
           /\ \A i \in 1..Len(h) :
                m[i + 1] = [role |-> shown[i].role, content |-> shown[i].content]
           /\ m[Len(m)] = [role |-> "user", content |-> page.userMessage]]_vars

\* a second send is with math-solver: its history is the earlier question
\* and answer, and the list forwarded has four entries
C17_Witness ==
  /\ page.pc = "solving"
  /\ solver.pc = "fetch"
  /\ Len(page.messages) = 3
  /\ page.messages[2].role = "assistant"
  /\ Len(solver.messages) = 4
  /\ solver.messages[4].content = page.userMessage
----------------------------------------------------------------------------
\* C18: fromUnit and toUnit are always units of the current category, and a
\* change of category sets fromUnit to the first and toUnit to the second
\* unit of the new category and leaves the entered value as it was.
C18_UnitsOfCategory ==
  /\ [](conv.fromUnit \in UnitSet(conv.category) /\ conv.toUnit \in UnitSet(conv.category))
  /\ [][conv'.category # conv.category =>
          /\ conv'.fromUnit = Units(conv'.category)[1]
          /\ conv'.toUnit = Units(conv'.category)[2]
          /\ conv'.value = conv.value]_vars

\* a value was typed and units picked, then the category changed
C18_Witness ==
  /\ conv.category = "temperature"
  /\ conv.value = "2.5"
  /\ conv.fromUnit = "C"
  /\ conv.toUnit = "F"
====
